---- MODULE Spec2Model ----
(***************************************************************************)
(* The two NSRDB request handlers of snapshot-backend:                     *)
(*   variant "A"  src/api/nsrdb.js      catalog query, newest year, 1 fetch *)
(*   variant "B"  src/unnamed/part_000  fixed years 2023 then 2022          *)
(* Text is modelled as sequences of one-character strings so that trim,    *)
(* split, toUpperCase, includes, indexOf and parseFloat do real work.      *)
(***************************************************************************)
EXTENDS Integers, Sequences, FiniteSets, TLC

(***************************************************************************)
(* JavaScript string and number primitives used by the handlers            *)
(***************************************************************************)

\* a string literal of the source, as characters
GHI == <<"G", "H", "I">>
DNI == <<"D", "N", "I">>
INFINITY == <<"I", "n", "f", "i", "n", "i", "t", "y">>

Whitespace == {" ", "\n", "\t", "\r"}
Digits == <<"0", "1", "2", "3", "4", "5", "6", "7", "8", "9">>
LowerCase == <<"a", "b", "c", "d", "e", "f", "g", "h", "i", "j", "k", "l", "m",
               "n", "o", "p", "q", "r", "s", "t", "u", "v", "w", "x", "y", "z">>
UpperCase == <<"A", "B", "C", "D", "E", "F", "G", "H", "I", "J", "K", "L", "M",
               "N", "O", "P", "Q", "R", "S", "T", "U", "V", "W", "X", "Y", "Z">>

LowerCaseLetters == {LowerCase[k] : k \in DOMAIN LowerCase}

IsDigit(c) == \E d \in DOMAIN Digits : Digits[d] = c
DigitVal(c) == (CHOOSE d \in DOMAIN Digits : Digits[d] = c) - 1

\* String.prototype.toUpperCase, one character
UpperChar(c) ==
  IF c \in LowerCaseLetters
    THEN UpperCase[CHOOSE k \in DOMAIN LowerCase : LowerCase[k] = c]
    ELSE c

\* String.prototype.toUpperCase
ToUpperCase(s) == [k \in DOMAIN s |-> UpperChar(s[k])]

\* String.prototype.trim: whitespace removed at both ends
Trim(s) ==
  LET keep == {k \in DOMAIN s : s[k] \notin Whitespace}
  IN IF keep = {} THEN <<>>
     ELSE LET lo == CHOOSE k \in keep : \A j \in keep : k <= j
              hi == CHOOSE k \in keep : \A j \in keep : k >= j
          IN SubSeq(s, lo, hi)

RECURSIVE SplitScan(_, _, _, _)
\* the pieces of s from position start on, with the scan at position i
SplitScan(s, sep, i, start) ==
  IF i > Len(s) THEN <<SubSeq(s, start, Len(s))>>
  ELSE IF s[i] = sep THEN <<SubSeq(s, start, i - 1)>> \o SplitScan(s, sep, i + 1, i + 1)
  ELSE SplitScan(s, sep, i + 1, start)

\* String.prototype.split(sep) for a one-character separator:
\* "".split(sep) is [""], and n separators give n + 1 pieces
Split(s, sep) == SplitScan(s, sep, 1, 1)

\* is sub found in s at 1-based position k
MatchAt(s, sub, k) ==
  /\ k + Len(sub) - 1 <= Len(s)
  /\ \A j \in DOMAIN sub : s[k + j - 1] = sub[j]

\* String.prototype.includes
Includes(s, sub) == \E k \in 1..(Len(s) + 1) : MatchAt(s, sub, k)

\* Array.prototype.indexOf: zero-based index of the first equal element, or -1
IndexOf(arr, x) ==
  IF \E k \in DOMAIN arr : arr[k] = x
    THEN (CHOOSE k \in DOMAIN arr : arr[k] = x /\ \A j \in 1..(k - 1) : arr[j] # x) - 1
    ELSE -1

\* JavaScript numbers: a finite value, or NaN, or an infinity
Num(v) == [kind |-> "finite", val |-> v]
NaN == [kind |-> "NaN", val |-> 0]
PosInfinity == [kind |-> "Infinity", val |-> 1]
NegInfinity == [kind |-> "Infinity", val |-> -1]

\* Number.isFinite
IsFinite(x) == x.kind = "finite"

RECURSIVE DigitsValue(_, _)
\* value of the digit run s[1..n]
DigitsValue(s, n) == IF n = 0 THEN 0 ELSE 10 * DigitsValue(s, n - 1) + DigitVal(s[n])

\* parseFloat on a string: leading whitespace skipped, optional sign, then
\* "Infinity" or the longest run of digits; anything else is NaN.  The input
\* alphabets below hold no "." and no exponent, so every parsed value is integral.
ParseFloatStr(s) ==
  LET keep == {k \in DOMAIN s : s[k] \notin Whitespace}
  IN IF keep = {} THEN NaN
     ELSE
       LET lo == CHOOSE k \in keep : \A j \in keep : k <= j
           t == SubSeq(s, lo, Len(s))
           neg == t[1] = "-"
           signed == t[1] \in {"-", "+"}
           u == IF signed THEN Tail(t) ELSE t
           stop == {k \in DOMAIN u : ~IsDigit(u[k])}
           n == IF stop = {} THEN Len(u)
                ELSE (CHOOSE k \in stop : \A j \in stop : k <= j) - 1
       IN IF MatchAt(u, INFINITY, 1) THEN (IF neg THEN NegInfinity ELSE PosInfinity)
          ELSE IF n = 0 THEN NaN
          ELSE Num((IF neg THEN -1 ELSE 1) * DigitsValue(u, n))

\* cols[idx] of a JavaScript array: undefined past the end
ArrayGet(arr, idx) == IF idx >= 0 /\ idx < Len(arr) THEN [def |-> TRUE, v |-> arr[idx + 1]]
                      ELSE [def |-> FALSE, v |-> <<>>]

\* parseFloat(cols[idx]): parseFloat(undefined) is NaN
ParseFloat(field) == IF field.def THEN ParseFloatStr(field.v) ELSE NaN

(***************************************************************************)
(* The CSV reduction: nsrdb.js 89-166 inline, part_000 processResponse     *)
(***************************************************************************)

MinLines == 10
HeaderScanLimit == 15
WhPerKwh == 1000
DaysPerYear == 365

Min(a, b) == IF a < b THEN a ELSE b

\* const lines = csvText.trim().split('\n')
CsvLines(csvText) == Split(Trim(csvText), "\n")

\* lines.length < 10
TooFewLines(lines) == Len(lines) < MinLines

\* lines[i].toUpperCase().includes('GHI')
MentionsGhi(line) == Includes(ToUpperCase(line), GHI)

\* how many leading lines the header loop looks at: Math.min(15, lines.length)
ScanWindow(lines) == Min(HeaderScanLimit, Len(lines))

\* the header loop: zero-based index of the first line of the window that
\* mentions GHI, or -1
FindHeaderIdx(lines) ==
  LET hits == {i \in 0..(ScanWindow(lines) - 1) : MentionsGhi(lines[i + 1])}
  IN IF hits = {} THEN -1 ELSE CHOOSE i \in hits : \A j \in hits : i <= j

\* lines[headerIdx].split(',').map(s => s.trim().toUpperCase())
HeaderFields(line) ==
  LET raw == Split(line, ",") IN [k \in DOMAIN raw |-> ToUpperCase(Trim(raw[k]))]

\* variation: the GHI column is the first field that contains GHI
GhiIndexBySubstring(headers) ==
  LET hits == {k \in DOMAIN headers : Includes(headers[k], GHI)}
  IN IF hits = {} THEN -1 ELSE (CHOOSE k \in hits : \A j \in hits : k <= j) - 1

\* headers.indexOf('GHI')
GhiIndex(headers) == IndexOf(headers, GHI)

\* headers.indexOf('DNI')
DniIndex(headers) == IndexOf(headers, DNI)

\* const dniVal = dniIdx >= 0 ? parseFloat(cols[dniIdx]) : NaN
DniValue(cols, dniIdx) == IF dniIdx >= 0 THEN ParseFloat(ArrayGet(cols, dniIdx)) ELSE NaN

\* variation: count++ ahead of the finiteness test
RowStepCountingEveryRow(acc, line, ghiIdx, dniIdx) ==
  LET cols == Split(line, ",")
      ghiVal == ParseFloat(ArrayGet(cols, ghiIdx))
      dniVal == DniValue(cols, dniIdx)
  IN IF ~IsFinite(ghiVal) THEN [acc EXCEPT !.count = acc.count + 1]
     ELSE [ghiSum |-> acc.ghiSum + ghiVal.val,
           dniSum |-> IF IsFinite(dniVal) THEN acc.dniSum + dniVal.val ELSE acc.dniSum,
           count |-> acc.count + 1]

\* variation: the DNI cell is added ahead of the test of the GHI cell
RowStepDniBeforeGhiTest(acc, line, ghiIdx, dniIdx) ==
  LET cols == Split(line, ",")
      ghiVal == ParseFloat(ArrayGet(cols, ghiIdx))
      dniVal == DniValue(cols, dniIdx)
      withDni == [acc EXCEPT !.dniSum = IF IsFinite(dniVal) THEN @ + dniVal.val ELSE @]
  IN IF ~IsFinite(ghiVal) THEN withDni
     ELSE [withDni EXCEPT !.ghiSum = @ + ghiVal.val, !.count = @ + 1]

\* one pass of the summing loop over one line
RowStep(acc, line, ghiIdx, dniIdx) ==
  LET cols == Split(line, ",")
      ghiVal == ParseFloat(ArrayGet(cols, ghiIdx))
      dniVal == DniValue(cols, dniIdx)
  IN IF ~IsFinite(ghiVal) THEN acc
     ELSE [ghiSum |-> acc.ghiSum + ghiVal.val,
           dniSum |-> IF IsFinite(dniVal) THEN acc.dniSum + dniVal.val ELSE acc.dniSum,
           count |-> acc.count + 1]

RECURSIVE SumRows(_, _, _, _, _)
\* the summing loop, for (i = headerIdx + 1; i < lines.length; i++): the totals
\* once the zero-based lines headerIdx+1 .. n-1 have been folded in
SumRows(lines, headerIdx, n, ghiIdx, dniIdx) ==
  IF n <= headerIdx + 1 THEN [ghiSum |-> 0, dniSum |-> 0, count |-> 0]
  ELSE RowStep(SumRows(lines, headerIdx, n - 1, ghiIdx, dniIdx), lines[n], ghiIdx, dniIdx)

\* variation: the test for an empty result is missing
NoRecordsUnchecked(count) == FALSE

\* if (!count)
NoRecords(count) == count = 0

\* a quotient the handlers compute in floating point, kept exact
Ratio(n, d) == [num |-> n, den |-> d]

NoSolar == [year |-> 0, annualGhi |-> Ratio(0, 1), annualDni |-> Ratio(0, 1),
            avgGhiDaily |-> Ratio(0, 1), avgDniDaily |-> Ratio(0, 1), hoursRecorded |-> 0]

\* res.status(code).json({ error: message, ... })
ErrorResponse(code, message) ==
  [kind |-> "error", status |-> code, error |-> message, solar |-> NoSolar, dataset |-> ""]

\* res.status(200).json({ location, solar: {...}, ... })
SummaryResponse(year, totals) ==
  [kind |-> "summary", status |-> 200, error |-> "", dataset |-> "",
   solar |-> [year |-> year,
              annualGhi |-> Ratio(totals.ghiSum, WhPerKwh),
              annualDni |-> Ratio(totals.dniSum, WhPerKwh),
              avgGhiDaily |-> Ratio(totals.ghiSum, WhPerKwh * DaysPerYear),
              avgDniDaily |-> Ratio(totals.dniSum, WhPerKwh * DaysPerYear),
              hoursRecorded |-> totals.count]]

\* res.status(200).end()
EndResponse == [kind |-> "end", status |-> 200, error |-> "", solar |-> NoSolar, dataset |-> ""]

\* everything from the split of the text to the response, which both files
\* carry in the same words
ReduceCsv(csvText, year) ==
  LET lines == CsvLines(csvText) IN
  IF TooFewLines(lines) THEN ErrorResponse(204, "Insufficient data in response")
  ELSE
    LET headerIdx == FindHeaderIdx(lines) IN
    IF headerIdx = -1 THEN ErrorResponse(500, "Could not find data header in CSV")
    ELSE
      LET headers == HeaderFields(lines[headerIdx + 1])
          ghiIdx == GhiIndex(headers)
          dniIdx == DniIndex(headers)
      IN IF ghiIdx = -1 THEN ErrorResponse(500, "GHI column not found in data")
         ELSE
           LET totals == SumRows(lines, headerIdx, Len(lines), ghiIdx, dniIdx) IN
           IF NoRecords(totals.count) THEN ErrorResponse(204, "No valid data records found")
           ELSE SummaryResponse(year, totals)

(***************************************************************************)
(* Upstream payloads: k metadata lines, one header line, then data rows,   *)
(* joined by newlines and closed by a newline                              *)
(***************************************************************************)

MaxMeta == 16
MaxRows == 3

\* "x,7": a metadata line that holds a number but does not mention GHI
MetaLine == <<"x", ",", "7">>

HeaderLib ==
  { <<"T", ",", "G", "H", "I", ",", "D", "N", "I">>,            \* T,GHI,DNI
    <<"t", ",", " ", "g", "h", "i", " ", ",", "W">>,            \* t, ghi ,W
    <<"T", ",", "G", "H", "I", " ", "U", ",", "D", "N", "I">> } \* T,GHI U,DNI

RowLib ==
  { <<"1", ",", "5", ",", "2">>,                     \* 1,5,2
    <<"2", ",", "N", "a", "N", ",", "6">>,           \* 2,NaN,6
    <<"3", ",", "7", "x", ",", "x">>,                \* 3,7x,x
    <<"4">>,                                         \* 4
    <<"T", ",", "G", "H", "I", ",", "D", "N", "I">> } \* T,GHI,DNI again

\* up to MaxRows data rows, in every order, no row twice
RowSeqs ==
  {rs \in UNION {[1..n -> RowLib] : n \in 0..MaxRows} :
     \A i, j \in DOMAIN rs : rs[i] = rs[j] => i = j}

RECURSIVE JoinLines(_)
\* the lines, each followed by a newline
JoinLines(ls) == IF ls = <<>> THEN <<>> ELSE Head(ls) \o <<"\n">> \o JoinLines(Tail(ls))

Payload(k, header, rows) == JoinLines([j \in 1..k |-> MetaLine] \o <<header>> \o rows)

Payloads == {Payload(k, h, rs) : k \in 0..MaxMeta, h \in HeaderLib, rs \in RowSeqs}

\* the payloads the two handlers are run on: header on the last line of the
\* scan window or just past it, or a text too short, with at most two data rows
HandlerPayloads ==
  {Payload(k, h, rs) : k \in {0, HeaderScanLimit - 1, HeaderScanLimit}, h \in HeaderLib,
                       rs \in {r \in RowSeqs : Len(r) <= 2}}

(***************************************************************************)
(* Requests, environment and upstream answers                              *)
(***************************************************************************)

\* req.query.lat: absent (or empty), not a number, a number
LatLib == { <<>>, <<"a", "b", "c">>, <<"3", "5">> }
\* req.query.lng: absent (or empty), a number
LngLib == { <<>>, <<"-", "9">> }
Methods == {"GET", "OPTIONS"}
\* process.env.NSRDB_KEY: unset, set
KeyLib == {"", "k"}

\* HTTP statuses an upstream call resolves with
Statuses == {200, 400, 404, 500}
\* Response.ok
Ok(status) == status >= 200 /\ status <= 299

\* entries of availableYears: a number, or a marker string such as "tmy"
Year(y) == [type |-> "number", n |-> y]
Tmy == [type |-> "string", n |-> 0]

MaxDatasets == 2

YearLists ==
  { <<>>, <<Tmy>>, <<Year(2019), Year(2021)>>, <<Year(2021), Year(2019)>>, <<Year(2020)>>,
    <<Year(2021)>>, <<Tmy, Year(2020)>>, <<Year(2020), Tmy>> }

\* an optional property of a catalog object
Absent == [def |-> FALSE, v |-> <<>>]
Present(v) == [def |-> TRUE, v |-> v]

\* typeof y === 'number'
IsNumber(y) == y.type = "number"

RECURSIVE NumericYears(_)
\* availableYears.filter(y => typeof y === 'number')
NumericYears(ys) ==
  IF ys = <<>> THEN <<>>
  ELSE IF IsNumber(Head(ys)) THEN <<Head(ys).n>> \o NumericYears(Tail(ys))
  ELSE NumericYears(Tail(ys))

\* the links a dataset comes with: one per numeric year, all of one interval
LinksOf(ys, interval) ==
  LET ns == NumericYears(ys) IN [k \in DOMAIN ns |-> [year |-> ns[k], interval |-> interval]]

DatasetsNamed(name) ==
  {[displayName |-> name, availableYears |-> Absent, links |-> Absent]}
  \cup UNION {{[displayName |-> name, availableYears |-> Present(ys), links |-> ls] :
                  ls \in {Absent, Present(LinksOf(ys, 60)), Present(LinksOf(ys, 30))}} :
                ys \in YearLists}

\* the catalog bodies queryResp.json() resolves with: no outputs property, or
\* up to MaxDatasets datasets, named by their place in the response
OutputLists(n) ==
  {f \in [1..n -> UNION {DatasetsNamed(ToString(k)) : k \in 1..n}] :
     \A k \in 1..n : f[k].displayName = ToString(k)}
Catalogs ==
  {[hasOutputs |-> FALSE, outputs |-> <<>>]}
  \cup {[hasOutputs |-> TRUE, outputs |-> os] : os \in UNION {OutputLists(n) : n \in 0..MaxDatasets}}

NoQueryData == [hasOutputs |-> FALSE, outputs |-> <<>>]
NullDataset == [displayName |-> "", availableYears |-> Absent, links |-> Absent]

VARIABLES variant, lat, lng, method, NSRDB_KEY, pc, fetches, sent, promise,
          queryData, bestDataset, mostRecentYear, year, csvText
vars == <<variant, lat, lng, method, NSRDB_KEY, pc, fetches, sent, promise,
          queryData, bestDataset, mostRecentYear, year, csvText>>

Init ==
  /\ variant \in {"A", "B"}
  /\ lat \in LatLib
  /\ lng \in LngLib
  /\ method \in Methods
  /\ NSRDB_KEY \in KeyLib
  /\ pc = "start"
  /\ fetches = <<>>
  /\ sent = <<>>
  /\ promise = "pending"
  /\ queryData = NoQueryData
  /\ bestDataset = NullDataset
  /\ mostRecentYear = 0
  /\ year = 0
  /\ csvText = <<>>

(***************************************************************************)
(* Steps shared by the two handlers                                        *)
(***************************************************************************)

\* if (!lat || !lng)
MissingParam == lat = <<>> \/ lng = <<>>

\* if (!NSRDB_KEY)
MissingKey == NSRDB_KEY = ""

\* fetch(url): one more upstream call in flight
Fetch(target, y, name) ==
  [target |-> target, year |-> y, dataset |-> name, state |-> "pending", status |-> 0]
Issue(f) == fetches' = Append(fetches, f)

\* the call in flight resolves with a response of some status
Settle(status) ==
  fetches' = [fetches EXCEPT ![Len(fetches)].state = "resolved",
                             ![Len(fetches)].status = status]

\* the call in flight rejects
Reject == fetches' = [fetches EXCEPT ![Len(fetches)].state = "rejected"]

\* return res.status(..).json(..) / .end(): the response goes out and the
\* handler's promise fulfils
Return(r) ==
  /\ sent' = Append(sent, r)
  /\ promise' = "fulfilled"
  /\ pc' = "returned"

\* catch (e) { return res.status(500).json({ error: "Server error", ... }) }
Catch == Return(ErrorResponse(500, "Server error"))

\* return res.status(upstream.status).json({ error, status: upstream.status, ... })
UpstreamFailure(status, message) == Return(ErrorResponse(status, message))

\* lines 3-18 of both files; TRUE when the handler has returned in them
Prologue ==
  IF MissingParam THEN Return(ErrorResponse(400, "lat/lng required"))
  ELSE IF MissingKey THEN Return(ErrorResponse(500, "Missing NSRDB_KEY env var"))
  ELSE method = "OPTIONS" /\ Return(EndResponse)

PassesPrologue == ~MissingParam /\ ~MissingKey /\ method # "OPTIONS"

(***************************************************************************)
(* Variant A: src/api/nsrdb.js                                             *)
(***************************************************************************)

\* numericYears.sort((a, b) => b - a)[0]: the largest of a non-empty list
NewestOf(ns) == ns[CHOOSE k \in DOMAIN ns : \A j \in DOMAIN ns : ns[k] >= ns[j]]

\* variation: the comparison of the selection loop lets an equal year win
NewerOrSame(y, recent) == y >= recent

\* numericYears[0] > mostRecentYear
Newer(y, recent) == y > recent

\* one pass of the selection loop; best = [dataset, year], dataset 0 for null
SelectStep(best, outputs, k) ==
  LET dataset == outputs[k] IN
  IF ~dataset.availableYears.def \/ Len(dataset.availableYears.v) = 0 THEN best
  ELSE
    LET numericYears == NumericYears(dataset.availableYears.v) IN
    IF Len(numericYears) > 0 /\ Newer(NewestOf(numericYears), best.year)
      THEN [dataset |-> k, year |-> NewestOf(numericYears)]
      ELSE best

RECURSIVE SelectBest(_, _)
\* for (const dataset of queryData.outputs), after the first n datasets
SelectBest(outputs, n) ==
  IF n = 0 THEN [dataset |-> 0, year |-> 0]
  ELSE SelectStep(SelectBest(outputs, n - 1), outputs, n)

\* bestDataset.links?.find(link => link.year === mostRecentYear && link.interval === 60)
HasYearLink(dataset, y) ==
  /\ dataset.links.def
  /\ \E k \in DOMAIN dataset.links.v :
       dataset.links.v[k].year = y /\ dataset.links.v[k].interval = 60

\* lines 3-23: checks, then the catalog query goes out
A_Begin ==
  /\ variant = "A" /\ pc = "start"
  /\ \/ Prologue /\ UNCHANGED fetches
     \/ /\ PassesPrologue
        /\ Issue(Fetch("catalog", 0, ""))
        /\ pc' = "A23"
        /\ UNCHANGED <<sent, promise>>
  /\ UNCHANGED <<variant, lat, lng, method, NSRDB_KEY, queryData, bestDataset,
                 mostRecentYear, year, csvText>>

\* lines 23-31: the catalog query resolves
A_QueryResp ==
  /\ pc = "A23"
  /\ \E status \in Statuses :
       /\ Settle(status)
       /\ IF ~Ok(status) THEN UpstreamFailure(status, "Failed to query available datasets")
          ELSE pc' = "A31" /\ UNCHANGED <<sent, promise>>
  /\ UNCHANGED <<variant, lat, lng, method, NSRDB_KEY, queryData, bestDataset,
                 mostRecentYear, year, csvText>>

\* lines 31-80: the catalog body arrives; selection; the series fetch goes out
A_QueryJson ==
  /\ pc = "A31"
  /\ \E body \in Catalogs :
       LET best == SelectBest(body.outputs, Len(body.outputs)) IN
       /\ queryData' = body
       /\ IF ~body.hasOutputs \/ Len(body.outputs) = 0
            THEN /\ Return(ErrorResponse(404, "No NSRDB data available for this location"))
                 /\ UNCHANGED <<bestDataset, mostRecentYear, fetches>>
            ELSE
              /\ bestDataset' = IF best.dataset = 0 THEN NullDataset
                                ELSE body.outputs[best.dataset]
              /\ mostRecentYear' = best.year
              /\ IF best.dataset = 0 \/ best.year = 0
                   THEN /\ Return(ErrorResponse(404, "No recent year data available"))
                        /\ UNCHANGED fetches
                   ELSE IF ~HasYearLink(body.outputs[best.dataset], best.year)
                     THEN /\ Return(ErrorResponse(404,
                                      "No download link available for recent data"))
                          /\ UNCHANGED fetches
                     ELSE /\ Issue(Fetch("series", best.year,
                                         body.outputs[best.dataset].displayName))
                          /\ pc' = "A80"
                          /\ UNCHANGED <<sent, promise>>
  /\ UNCHANGED <<variant, lat, lng, method, NSRDB_KEY, year, csvText>>

\* variation: a failed series fetch is followed by another series fetch
A_DataFailedThenRetry(status) ==
  /\ fetches' = Append([fetches EXCEPT ![Len(fetches)].state = "resolved",
                                        ![Len(fetches)].status = status],
                       Fetch("series", mostRecentYear, bestDataset.displayName))
  /\ pc' = "A80"
  /\ UNCHANGED <<sent, promise>>

\* lines 81-87: the series fetch came back not ok
A_DataFailed(status) ==
  /\ Settle(status)
  /\ UpstreamFailure(status, "Failed to download solar data")

\* lines 80-89: the series fetch resolves.  queryData is not read after the
\* selection loop and is released here.
A_DataResp ==
  /\ pc = "A80"
  /\ \E status \in Statuses :
       IF ~Ok(status) THEN A_DataFailed(status)
       ELSE Settle(status) /\ pc' = "A89" /\ UNCHANGED <<sent, promise>>
  /\ queryData' = NoQueryData
  /\ UNCHANGED <<variant, lat, lng, method, NSRDB_KEY, bestDataset,
                 mostRecentYear, year, csvText>>

\* lines 89-166: the text arrives and is reduced
A_Text ==
  /\ pc = "A89"
  /\ \E text \in HandlerPayloads :
       /\ csvText' = text
       /\ LET r == ReduceCsv(text, mostRecentYear) IN
          Return(IF r.kind = "summary"
                   THEN [r EXCEPT !.dataset = bestDataset.displayName] ELSE r)
  /\ UNCHANGED <<variant, lat, lng, method, NSRDB_KEY, fetches, queryData, bestDataset,
                 mostRecentYear, year>>

\* lines 168-173: an awaited fetch, json() or text() rejects inside the try
A_Throw ==
  /\ pc \in {"A23", "A31", "A80", "A89"}
  /\ IF pc \in {"A23", "A80"} THEN Reject ELSE UNCHANGED fetches
  /\ Catch
  /\ UNCHANGED <<variant, lat, lng, method, NSRDB_KEY, queryData, bestDataset,
                 mostRecentYear, year, csvText>>

(***************************************************************************)
(* Variant B: src/unnamed/part_000                                         *)
(***************************************************************************)

FirstYear == 2023
SecondYear == 2022

\* variation: every failed status of 2023 leads to the fetch of 2022
RetryableAnyFailure(status) == ~Ok(status)

\* if (resp.status === 400 || resp.status === 404)
Retryable(status) == status = 400 \/ status = 404

\* lines 3-41: checks, then the fetch of 2023 goes out
B_Begin ==
  /\ variant = "B" /\ pc = "start"
  /\ \/ Prologue /\ UNCHANGED fetches
     \/ /\ PassesPrologue
        /\ Issue(Fetch("series", FirstYear, ""))
        /\ pc' = "B41"
        /\ UNCHANGED <<sent, promise>>
  /\ UNCHANGED <<variant, lat, lng, method, NSRDB_KEY, queryData, bestDataset,
                 mostRecentYear, year, csvText>>

\* return processResponse(resp, lat, lng, year, res): the call starts and
\* stops at its first await, line 94; nothing awaits it inside the try
CallProcessResponse(y) ==
  /\ year' = y
  /\ pc' = "P94"
  /\ UNCHANGED <<sent, promise>>

\* lines 41-44 and 83: the fetch of 2023 resolves
B_Resp ==
  /\ pc = "B41"
  /\ \E status \in Statuses :
       /\ Settle(status)
       /\ IF ~Ok(status) THEN pc' = "B44" /\ UNCHANGED <<sent, promise, year>>
          ELSE CallProcessResponse(FirstYear)
  /\ UNCHANGED <<variant, lat, lng, method, NSRDB_KEY, queryData, bestDataset,
                 mostRecentYear, csvText>>

\* lines 44-80: the error body of 2023 arrives; 2022 is fetched, or the
\* failure is reported
B_ErrText ==
  /\ pc = "B44"
  /\ IF Retryable(fetches[Len(fetches)].status)
       THEN /\ Issue(Fetch("series", SecondYear, ""))
            /\ pc' = "B63"
            /\ UNCHANGED <<sent, promise>>
       ELSE /\ UpstreamFailure(fetches[Len(fetches)].status, "NSRDB API request failed")
            /\ UNCHANGED fetches
  /\ UNCHANGED <<variant, lat, lng, method, NSRDB_KEY, queryData, bestDataset,
                 mostRecentYear, year, csvText>>

\* lines 63-73: the fetch of 2022 resolves
B_Resp2022 ==
  /\ pc = "B63"
  /\ \E status \in Statuses :
       /\ Settle(status)
       /\ IF ~Ok(status)
            THEN /\ UpstreamFailure(status, "NSRDB data not available for 2023 or 2022")
                 /\ UNCHANGED year
            ELSE CallProcessResponse(SecondYear)
  /\ UNCHANGED <<variant, lat, lng, method, NSRDB_KEY, queryData, bestDataset,
                 mostRecentYear, csvText>>

\* lines 85-90: an awaited fetch or text() rejects inside the try
B_Throw ==
  /\ pc \in {"B41", "B44", "B63"}
  /\ IF pc \in {"B41", "B63"} THEN Reject ELSE UNCHANGED fetches
  /\ Catch
  /\ UNCHANGED <<variant, lat, lng, method, NSRDB_KEY, queryData, bestDataset,
                 mostRecentYear, year, csvText>>

\* processResponse, lines 94-166: the text arrives and is reduced; the
\* handler's promise settles as processResponse's does
P_Text ==
  /\ pc = "P94"
  /\ \E text \in HandlerPayloads :
       /\ csvText' = text
       /\ Return(ReduceCsv(text, year))
  /\ UNCHANGED <<variant, lat, lng, method, NSRDB_KEY, fetches, queryData, bestDataset,
                 mostRecentYear, year>>

\* processResponse, line 94: resp.text() rejects.  processResponse has no
\* try, and the handler returned its promise without awaiting it, so the
\* handler's catch is not on the stack: the handler's promise rejects and
\* nothing is sent.
P_Throw ==
  /\ pc = "P94"
  /\ promise' = "rejected"
  /\ pc' = "threw"
  /\ UNCHANGED <<variant, lat, lng, method, NSRDB_KEY, fetches, sent, queryData,
                 bestDataset, mostRecentYear, year, csvText>>

Next ==
  \/ A_Begin \/ A_QueryResp \/ A_QueryJson \/ A_DataResp \/ A_Text \/ A_Throw
  \/ B_Begin \/ B_Resp \/ B_ErrText \/ B_Resp2022 \/ B_Throw \/ P_Text \/ P_Throw

Spec == Init /\ [][Next]_vars

(***************************************************************************)
(* The reduction on its own: processResponse holding the text of a fetched *)
(* response of 2023, for every payload of the generator                    *)
(***************************************************************************)

ParseInit ==
  /\ variant = "B"
  /\ lat = <<"3", "5">>
  /\ lng = <<"-", "9">>
  /\ method = "GET"
  /\ NSRDB_KEY = "k"
  /\ pc = "P95"
  /\ fetches = <<[Fetch("series", FirstYear, "") EXCEPT !.state = "resolved", !.status = 200]>>
  /\ sent = <<>>
  /\ promise = "pending"
  /\ queryData = NoQueryData
  /\ bestDataset = NullDataset
  /\ mostRecentYear = 0
  /\ year = FirstYear
  /\ csvText \in Payloads

\* processResponse, lines 95-166, on the text read at line 94
ParseStep ==
  /\ pc = "P95"
  /\ Return(ReduceCsv(csvText, year))
  /\ UNCHANGED <<variant, lat, lng, method, NSRDB_KEY, fetches, queryData, bestDataset,
                 mostRecentYear, year, csvText>>

ParseNext == ParseStep

SpecParse == ParseInit /\ [][ParseNext]_vars

(***************************************************************************)
(* Vocabulary of the properties                                            *)
(***************************************************************************)

Terminated == pc \in {"returned", "threw"}

\* the reduction ran on a fetched text
Reduced == pc = "returned" /\ csvText # <<>>

Reply == sent[Len(sent)]

\* smallest element of a non-empty set of integers
Least(S) == CHOOSE i \in S : \A j \in S : i <= j

RECURSIVE SumOver(_, _)
\* sum of the finite values f[i], i in rows
SumOver(rows, f) ==
  IF rows = {} THEN 0
  ELSE LET i == CHOOSE r \in rows : TRUE IN f[i].val + SumOver(rows \ {i}, f)

\* What a text holds, read off it line by line (positions are one-based):
\*   n          number of lines of the trimmed text
\*   mentions   the lines that mention GHI in any letter case
\*   found      one of them is among the first 15; headerAt is the first
\*   ghiNamed   the header line has a field that, trimmed and uppercased, is GHI
\*   dniNamed   the same for DNI
\*   rows       the lines after the header
\*   ghiRows    the rows whose cell in the first GHI column is finite
\*   dniRows    the rows whose cell in the first DNI column is finite
\*   ghi, dni   those cells
\*   laterGhi   some row has a field that, trimmed and uppercased, is GHI
Facts(text) ==
  LET lines == CsvLines(text)
      n == Len(lines)
      mentions == {i \in 1..n : MentionsGhi(lines[i])}
      inWindow == {i \in mentions : i <= HeaderScanLimit}
      found == inWindow # {}
      h == IF found THEN Least(inWindow) ELSE 0
      raw == IF found THEN Split(lines[h], ",") ELSE <<>>
      names == [k \in DOMAIN raw |-> ToUpperCase(Trim(raw[k]))]
      ghiCols == {k \in DOMAIN names : names[k] = GHI}
      dniCols == {k \in DOMAIN names : names[k] = DNI}
      rows == IF found THEN (h + 1)..n ELSE {}
      cells == [i \in rows |-> Split(lines[i], ",")]
      cell(i, cols) ==
        IF cols # {} /\ Least(cols) <= Len(cells[i])
          THEN ParseFloatStr(cells[i][Least(cols)]) ELSE NaN
      ghi == [i \in rows |-> cell(i, ghiCols)]
      dni == [i \in rows |-> cell(i, dniCols)]
  IN [n |-> n, mentions |-> mentions, found |-> found, headerAt |-> h,
      ghiNamed |-> ghiCols # {}, dniNamed |-> dniCols # {}, rows |-> rows,
      ghi |-> ghi, dni |-> dni,
      ghiRows |-> {i \in rows : IsFinite(ghi[i])},
      dniRows |-> {i \in rows : IsFinite(dni[i])},
      laterGhi |-> \E i \in rows : \E k \in DOMAIN cells[i] :
                     ToUpperCase(Trim(cells[i][k])) = GHI]

\* a text the reduction takes as far as the summing loop
WellFormed(f) == f.n >= MinLines /\ f.found /\ f.ghiNamed

(***************************************************************************)
(* C1  variant A selection                                                 *)
(***************************************************************************)

\* the numeric years dataset k of the catalog offers
OfferedYears(k) ==
  LET ds == queryData.outputs[k] IN
  IF ds.availableYears.def
    THEN {ds.availableYears.v[j].n :
            j \in {i \in DOMAIN ds.availableYears.v : ds.availableYears.v[i].type = "number"}}
    ELSE {}

AllOfferedYears == UNION {OfferedYears(k) : k \in DOMAIN queryData.outputs}
LargestYear == CHOOSE y \in AllOfferedYears : \A z \in AllOfferedYears : y >= z
FirstWithLargest ==
  CHOOSE k \in DOMAIN queryData.outputs :
    /\ LargestYear \in OfferedYears(k)
    /\ \A j \in 1..(k - 1) : LargestYear \notin OfferedYears(j)

\* the selection loop ran on a catalog that lists datasets
Selected == queryData.hasOutputs /\ Len(queryData.outputs) > 0

\* C1: whenever the catalog lists datasets, the selected year is the largest
\* numeric year any dataset offers and the selected dataset is the first, in
\* response order, that offers it; a series fetch, if issued, asks for that year
\* of that dataset; with no numeric year anywhere nothing is selected and the
\* request ends with "No recent year data available".
C1_NewestYearFirstDataset ==
  Selected =>
    IF AllOfferedYears = {}
      THEN /\ bestDataset = NullDataset
           /\ pc = "returned"
           /\ sent = <<ErrorResponse(404, "No recent year data available")>>
           /\ Len(fetches) = 1
      ELSE /\ mostRecentYear = LargestYear
           /\ bestDataset = queryData.outputs[FirstWithLargest]
           /\ \A k \in DOMAIN fetches :
                fetches[k].target = "series" =>
                  /\ fetches[k].year = LargestYear
                  /\ fetches[k].dataset = queryData.outputs[FirstWithLargest].displayName

\* the catalog [2019, 2021], [2020]: year 2021 of the first dataset is fetched
C1_Witness ==
  /\ Selected
  /\ Len(queryData.outputs) = 2
  /\ queryData.outputs[1].availableYears = Present(<<Year(2019), Year(2021)>>)
  /\ queryData.outputs[2].availableYears = Present(<<Year(2020)>>)
  /\ pc = "A80"
  /\ mostRecentYear = 2021
  /\ fetches[2].year = 2021 /\ fetches[2].dataset = "1"

(***************************************************************************)
(* C2  variant B fallback order                                            *)
(***************************************************************************)

ParseErrors ==
  { "Insufficient data in response", "Could not find data header in CSV",
    "GHI column not found in data", "No valid data records found" }

\* C2: in variant B the first fetch asks for 2023; a second fetch exists only
\* when the first came back 400 or 404, and asks for 2022; a fetch that came back
\* ok is the last one of the request; and once the fetched text has been reduced,
\* whatever the outcome, the request is over with one reply.
C2_FallbackOnlyAfterRetryable ==
  variant = "B" =>
    /\ Len(fetches) <= 2
    /\ Len(fetches) >= 1 => fetches[1].year = FirstYear
    /\ Len(fetches) = 2 => /\ fetches[1].state = "resolved"
                           /\ fetches[1].status \in {400, 404}
                           /\ fetches[2].year = SecondYear
    /\ \A k \in DOMAIN fetches : Ok(fetches[k].status) => k = Len(fetches)
    /\ csvText # <<>> => /\ Ok(fetches[Len(fetches)].status)
                         /\ pc = "returned"
                         /\ Len(sent) = 1
                         /\ ~ENABLED Next

\* 2023 was fetched ok, its text failed to parse, and 2022 was never asked for
C2_Witness ==
  /\ variant = "B"
  /\ Reduced
  /\ Reply.error \in ParseErrors
  /\ Len(fetches) = 1
  /\ fetches[1].year = FirstYear

(***************************************************************************)
(* C3  variant A fetches the series once                                   *)
(***************************************************************************)

SeriesFetches == {k \in DOMAIN fetches : fetches[k].target = "series"}

\* C3: in variant A at most one series fetch is ever issued, for the selected
\* year; when it fails (a status that is not ok, or a rejection) or its text
\* fails to parse, the request is over with that one error.
C3_SingleSeriesFetch ==
  variant = "A" =>
    /\ Cardinality(SeriesFetches) <= 1
    /\ \A k \in SeriesFetches :
         /\ fetches[k].year = mostRecentYear
         /\ (\/ fetches[k].state = "rejected"
             \/ (fetches[k].state = "resolved" /\ ~Ok(fetches[k].status))) =>
              /\ pc = "returned"
              /\ Len(sent) = 1
              /\ Reply.error \in {"Failed to download solar data", "Server error"}
              /\ ~ENABLED Next
         /\ (Reduced /\ Reply.kind = "error") =>
              /\ Reply.error \in ParseErrors
              /\ Len(sent) = 1
              /\ ~ENABLED Next

\* the one series fetch failed and the request ended there
C3_Witness ==
  /\ variant = "A"
  /\ Cardinality(SeriesFetches) = 1
  /\ \E k \in SeriesFetches : fetches[k].status = 404
  /\ pc = "returned"
  /\ Reply.error = "Failed to download solar data"

(***************************************************************************)
(* C4  input and configuration errors                                      *)
(***************************************************************************)

\* a required location parameter is missing or is not a number
LocationInvalid ==
  \/ lat = <<>> \/ lng = <<>>
  \/ ~IsFinite(ParseFloatStr(lat)) \/ ~IsFinite(ParseFloatStr(lng))

\* C4: a request whose lat or lng is missing or non-numeric, or that runs
\* without NSRDB_KEY, never issues a fetch, and once the handler has run it has
\* ended with the "lat/lng required" or the "Missing NSRDB_KEY env var" reply.
C4_InputErrorsFetchFree ==
  (LocationInvalid \/ MissingKey) =>
    /\ fetches = <<>>
    /\ pc # "start" =>
         /\ pc = "returned"
         /\ sent \in { <<ErrorResponse(400, "lat/lng required")>>,
                       <<ErrorResponse(500, "Missing NSRDB_KEY env var")>> }

(***************************************************************************)
(* C5  sample counting                                                     *)
(***************************************************************************)

\* C5: for a text of at least 10 lines whose first GHI-mentioning line lies in
\* the first 15 and has a field named GHI, and with a data row whose GHI cell
\* is finite, the reply is a summary whose hoursRecorded is the number of data
\* rows with a finite GHI cell; annualGhi sums the GHI cells of exactly those
\* rows and annualDni sums DNI cells of those rows only.
C5_SampleCount ==
  Reduced =>
    LET f == Facts(csvText) IN
    (WellFormed(f) /\ f.ghiRows # {}) =>
      /\ Reply.kind = "summary"
      /\ Reply.solar.hoursRecorded = Cardinality(f.ghiRows)
      /\ Reply.solar.annualGhi = Ratio(SumOver(f.ghiRows, f.ghi), WhPerKwh)
      /\ Reply.solar.annualDni.num = SumOver(f.ghiRows \cap f.dniRows, f.dni)

\* a summary over rows of which one with a non-finite GHI cell comes before one
\* with a finite GHI cell, and one after
C5_Witness ==
  /\ Reduced
  /\ Reply.kind = "summary"
  /\ LET f == Facts(csvText) IN
     /\ WellFormed(f)
     /\ \E i \in f.ghiRows, j \in f.rows \ f.ghiRows, k \in f.rows \ f.ghiRows :
          j < i /\ i < k

(***************************************************************************)
(* C6  no summary without samples                                          *)
(***************************************************************************)

\* C6: every summary either handler sends counts at least one sample; a text
\* that reaches the summing loop with no data row of finite GHI is answered
\* "No valid data records found", with status 204 and no summary.
C6_NoZeroSampleSummary ==
  /\ \A k \in DOMAIN sent :
       (sent[k].status = 200 /\ sent[k].kind = "summary") => sent[k].solar.hoursRecorded >= 1
  /\ Reduced =>
       LET f == Facts(csvText) IN
       (WellFormed(f) /\ f.ghiRows = {}) =>
         sent = <<ErrorResponse(204, "No valid data records found")>>

\* a header followed by one row whose GHI cell is NaN
C6_Witness ==
  /\ Reduced
  /\ Reply.error = "No valid data records found"
  /\ LET f == Facts(csvText) IN WellFormed(f) /\ f.rows # {} /\ f.ghiRows = {}

(***************************************************************************)
(* C7  error categories                                                    *)
(***************************************************************************)

\* the category a caller reads off a reply's message
CategoryOfMessage(message) ==
  CASE message = "lat/lng required" -> "InvalidInput"
    [] message = "Missing NSRDB_KEY env var" -> "Configuration"
    [] message \in {"Failed to query available datasets", "Failed to download solar data",
                    "NSRDB API request failed",
                    "NSRDB data not available for 2023 or 2022"} -> "UpstreamQueryFailure"
    [] message \in {"No NSRDB data available for this location",
                    "No download link available for recent data"} -> "NoDataAvailable"
    [] message = "No recent year data available" -> "NoRecentYear"
    [] message = "Insufficient data in response" -> "InsufficientData"
    [] message = "Could not find data header in CSV" -> "HeaderNotFound"
    [] message = "GHI column not found in data" -> "ColumnNotFound"
    [] message = "No valid data records found" -> "NoValidRecords"
    [] OTHER -> "ServerError"

\* the taxonomy category of the failure a request ended in: a missing
\* parameter is InvalidInput; failing that a missing key is Configuration;
\* failing that a non-numeric parameter is InvalidInput; a request with none
\* of these failed at the step its reply names
TaxonomyCategory ==
  IF MissingParam THEN "InvalidInput"
  ELSE IF MissingKey THEN "Configuration"
  ELSE IF LocationInvalid THEN "InvalidInput"
  ELSE CategoryOfMessage(Reply.error)

\* C7: the reply of a failed request tells its taxonomy category: no reply
\* (status and message) is sent for failures of two different categories.
C7_CategoriesDistinguishable ==
  (pc = "returned" /\ Reply.kind = "error") =>
    CategoryOfMessage(Reply.error) = TaxonomyCategory

(***************************************************************************)
(* C8  header detection and column lookup                                  *)
(***************************************************************************)

\* C8: on a text of at least 10 lines, when no line among the first 15 mentions
\* GHI the reply is "Could not find data header in CSV", also when a later line
\* does; otherwise the first such line alone is the header: when none of its
\* trimmed, uppercased fields equals GHI the reply is "GHI column not found in
\* data", also when a later line has such a field, and when one does the reply
\* is neither of the two.
C8_HeaderThenColumn ==
  Reduced =>
    LET f == Facts(csvText) IN
    f.n >= MinLines =>
      IF ~f.found
        THEN sent = <<ErrorResponse(500, "Could not find data header in CSV")>>
        ELSE IF ~f.ghiNamed
          THEN sent = <<ErrorResponse(500, "GHI column not found in data")>>
          ELSE Reply.error \notin {"Could not find data header in CSV",
                                   "GHI column not found in data"}

\* the first GHI-mentioning line has a field "GHI U" and no field GHI, a later
\* line has the field GHI, and the reply is "GHI column not found in data"
C8_Witness ==
  /\ Reduced
  /\ Reply.error = "GHI column not found in data"
  /\ LET f == Facts(csvText) IN
     f.n >= MinLines /\ f.found /\ ~f.ghiNamed /\ f.laterGhi

(***************************************************************************)
(* C9  DNI accumulation                                                    *)
(***************************************************************************)

\* C9: a summary's annualDni is the sum of the DNI cells of the data rows whose
\* GHI and DNI cells are both finite; rows with a finite GHI cell count toward
\* hoursRecorded whatever their DNI cell; and a well-formed text with a finite
\* GHI row and no DNI column still gets a summary, with annualDni 0.
C9_DniAccumulation ==
  Reduced =>
    LET f == Facts(csvText) IN
    WellFormed(f) =>
      /\ Reply.kind = "summary" =>
           /\ Reply.solar.annualDni =
                Ratio(SumOver(f.ghiRows \cap f.dniRows, f.dni), WhPerKwh)
           /\ Reply.solar.hoursRecorded =
                Cardinality(f.ghiRows \cap f.dniRows) + Cardinality(f.ghiRows \ f.dniRows)
           /\ Reply.solar.annualGhi.num =
                SumOver(f.ghiRows \cap f.dniRows, f.ghi) + SumOver(f.ghiRows \ f.dniRows, f.ghi)
      /\ (~f.dniNamed /\ f.ghiRows # {}) =>
           /\ Reply.kind = "summary"
           /\ Reply.solar.annualDni = Ratio(0, WhPerKwh)

\* a summary over a row with finite GHI and non-finite DNI, a row with
\* non-finite GHI and finite DNI, and a row with both finite
C9_Witness ==
  /\ Reduced
  /\ Reply.kind = "summary"
  /\ LET f == Facts(csvText) IN
     /\ WellFormed(f) /\ f.dniNamed
     /\ f.ghiRows \ f.dniRows # {}
     /\ f.dniRows \ f.ghiRows # {}
     /\ f.ghiRows \cap f.dniRows # {}

(***************************************************************************)
(* C10  one reply per request                                              *)
(***************************************************************************)

\* C10: a request that has ended has sent exactly one reply, and the handler's
\* promise has fulfilled: every rejection met on the way was caught and
\* answered "Server error".
C10_ExactlyOneReply ==
  Terminated => Len(sent) = 1 /\ promise = "fulfilled"
====
